---- MODULE Spec2Model ----
(***************************************************************************)
(* Verification model of the analyticsAI backend                           *)
(* (src/docker_deployment/backend).                                        *)
(*                                                                         *)
(* Three route groups are modelled, each under its own specification:      *)
(*   AuthSpec : routes/auth.py, models/user.py, models/session.py,         *)
(*              database/database.py and the lifespan of main.py           *)
(*   DataSpec : routes/data.py (storage browser)                           *)
(*   ExecSpec : routes/code_generation.py (execution pipeline)             *)
(* and parts of them on their own:                                         *)
(*   KernelSpec : execute_python_code_in_kernel and its child process      *)
(*   TableSpec  : json_to_html_table                                       *)
(*   RaceSpec   : two register requests in flight together                 *)
(*   MapSpec    : the file_mapping of generate_code and execute_code       *)
(*   LoadSpec   : the generated source of execute_code, block by block     *)
(*                                                                         *)
(* Library assumptions (code outside the repository):                      *)
(*   - secrets.token_hex(16) never returns a value it returned before and  *)
(*     a client cannot present a token that has not been issued yet, other *)
(*     than a forged value that is never issued;                           *)
(*   - hashlib.sha256 is injective on tokens;                              *)
(*   - bcrypt.checkpw(p, bcrypt.hashpw(q, salt)) holds exactly when p = q. *)
(***************************************************************************)
EXTENDS Integers, Sequences, FiniteSets, TLC

VARIABLES
    \* ---- credential and session service
    users,        \* table users: sequence of rows <<id, username, password, name>>
    sessions,     \* table user_sessions: rows <<id, user_id, token_hash, expires_at, is_active>>
    now,          \* datetime.utcnow(), in days
    nextToken,    \* state of the token generator: index of the next fresh token
    reply,        \* the last HTTP exchange of the auth routes (request echo + response)
    registered,   \* history: username -> what its successful register call was given
    issued,       \* history: raw token -> the call that returned it
    loggedOut,    \* history: tokens for which logout has returned
    \* ---- storage browser
    buckets,      \* the object store: existing bucket name -> (file name -> content)
    dataReply,    \* the last HTTP exchange of the data routes
    \* ---- code execution pipeline
    execReq,      \* the last Execute request and what its environment did
    child,        \* the outcome of the last child process
    kernelResult, \* what execute_python_code_in_kernel returned for it
    execReply,    \* the CodeExecutionResponse of the last Execute request
    tmpLeft,      \* the throwaway source file of the last run still exists
    \* ---- code generation
    genReq,       \* the last Generate request and what its environment did
    genReply,     \* the exchange of the last Generate request
    \* ---- table rendering
    tableData,    \* the parsed records handed to json_to_html_table
    tableHtml,    \* what it returned
    \* ---- register requests in flight together
    racePc,       \* where each request stands, and the row id it was given
    raceReq,      \* what each request asks for
    raceReply,    \* what each request was answered
    \* ---- context construction
    mapFiles,     \* the selected_files of a request
    mapResult,    \* the file_mapping built from it, or the exception
    \* ---- the preamble of the child, statement by statement
    loadLang,     \* the language of the request the child runs for
    loadPc,       \* the part of the generated source the child is in
    loadGlobals,  \* the globals of the child
    loadFailed,   \* history: the datasets whose read_csv raised
    loadPos,      \* how many blocks of the part it is in have run
    loadTables    \* the tables of the in-memory database

authVars == <<users, sessions, now, nextToken, reply, registered, issued, loggedOut>>
dataVars == <<buckets, dataReply>>
execVars == <<execReq, child, kernelResult, execReply, tmpLeft>>

genVars == <<genReq, genReply>>

tableVars == <<tableData, tableHtml>>

raceVars == <<racePc, raceReq, raceReply>>

mapVars == <<mapFiles, mapResult>>

loadVars == <<loadLang, loadPc, loadGlobals, loadFailed, loadPos, loadTables>>

restVars == <<mapVars, loadVars>>

vars == <<authVars, dataVars, execVars, genVars, tableVars, raceVars, restVars>>

\* what the handlers of one router leave alone
offAuth == <<dataVars, execVars, genVars, tableVars, raceVars, restVars>>
offData == <<authVars, execVars, genVars, tableVars, raceVars, restVars>>
offExec == <<authVars, dataVars, tableVars, raceVars, restVars>>

(***************************************************************************)
(* Bounds of the model                                                     *)
(***************************************************************************)
MaxSessions == 2
\* longest standard output of a child process given directly to the kernel
MaxOut == 4
\* longest text a user program prints, or a SQL text, in an Execute request
MaxPrint == 2
\* longest text the hosted model answers, or the message of its failure
MaxText == 3
\* most records in a list handed to json_to_html_table
MaxRows == 2

Usernames == {"alice", "bob"}
Passwords == {"pw1", "pw2"}
Names == {"Ann"}
Salts == {"s1"}

(***************************************************************************)
(* Values                                                                  *)
(***************************************************************************)
\* timedelta(days=7)
SessionDays == 7
\* the clock runs until one day after the first possible expiry
MaxTime == SessionDays + 1
\* time that passes between two requests
Elapsed == {SessionDays \div 2, SessionDays - (SessionDays \div 2)}

NoRow == <<>>
NoToken == <<"none", 0>>
\* a bearer value made up by a client; the generator never returns it
ForgedToken == <<"tok", 0>>
Token(n) == <<"tok", n>>
IssuedTokens == {Token(n) : n \in 1..(nextToken - 1)}
Presentable == IssuedTokens \cup {ForgedToken}

\* Column positions of a users row and of a user_sessions row (CREATE TABLE order)
UserRow(id, username, password, name) == <<id, username, password, name>>
SessionRow(id, user_id, token_hash, expires_at, is_active) ==
    <<id, user_id, token_hash, expires_at, is_active>>

\* hashlib.sha256(token.encode()).hexdigest()
sha256(token) == <<"sha256", token[2]>>

\* bcrypt.hashpw(password, salt): the salt is kept in the hash
hashpw(password, salt) == <<"bcrypt", salt, password>>
\* mutant: any password matches
checkpw_AnyPassword(password, stored) == stored[1] = "bcrypt"

\* bcrypt.checkpw(password, stored): re-hash with the stored salt and compare
checkpw(password, stored) == hashpw(password, stored[2]) = stored

\* datetime.isoformat(): fixed-width, zero-padded decimal fields
isoformat(t) == <<t \div 10, t % 10>>

\* SQLite comparison of two TEXT values (BINARY collation): memcmp, then length
RECURSIVE TextLess(_, _)
TextLess(a, b) ==
    IF b = <<>> THEN FALSE
    ELSE IF a = <<>> THEN TRUE
    ELSE IF Head(a) # Head(b) THEN Head(a) < Head(b)
    ELSE TextLess(Tail(a), Tail(b))

\* cursor.fetchone() on the rows a SELECT matches, in rowid order
FetchOne(table, Match(_)) ==
    LET hits == SelectSeq(table, Match)
    IN  IF hits = <<>> THEN NoRow ELSE hits[1]

\* cursor.lastrowid of an INSERT into a table with INTEGER PRIMARY KEY
LastRowId(table) == IF table = <<>> THEN 1 ELSE table[Len(table)][1] + 1

(***************************************************************************)
(* Values of the storage browser                                           *)
(***************************************************************************)
\* os.getenv("DEFAULT_BUCKET", ...)
DEFAULT_BUCKET == "ai-analysis-default-bucket"
PublicBucket == "sample-bucket"
\* a bucket name no bucket has
GhostBucket == "no-such-bucket"
BucketNames == {DEFAULT_BUCKET, PublicBucket, GhostBucket}

FileNames == {"a.csv", "b.json", "notes"}
\* list_blobs returns the objects in the order of their names
FileOrder == <<"a.csv", "b.json", "notes">>
\* the text of a file is a sequence of lines, a line a sequence of fields;
\* the empty sequence is an empty file
HeaderOnly == << <<"h1">> >>
OneRow == << <<"h1">>, <<"1">> >>
TwoRows == << <<"h1", "h2">>, <<"1", "x">>, <<"2", "y">> >>
\* uploaded texts
Contents == {<<>>, HeaderOnly, TwoRows}
\* the rows parameter of a preview request
RequestedRows == {-1, 0, 1, 10}
NoFile == <<>>

\* what the provider does in a request: nothing wrong, credentials cannot be
\* obtained (get_gcs_client raises), or the API call raises
Faults == {"none", "client", "provider"}
ProviderMessage == "provider said no"

NoDataReply ==
    [op |-> "none", bucket |-> "", file |-> "", faults |-> <<>>, rows |-> 0,
     content |-> <<>>, status |-> 0, detail |-> <<>>, body |-> <<>>]

\* the object store before the service touches it
InitialBuckets ==
    [b \in {DEFAULT_BUCKET, PublicBucket} |->
        IF b = DEFAULT_BUCKET THEN NoFile
        ELSE [f \in {"a.csv", "notes"} |-> IF f = "a.csv" THEN OneRow ELSE TwoRows]]

DataIdle ==
    /\ buckets = InitialBuckets
    /\ dataReply = NoDataReply

(***************************************************************************)
(* Values of the code execution pipeline                                   *)
(*                                                                         *)
(* Standard output is a sequence of tokens. "S" and "E" are the literals   *)
(* SUCCESS_JSON_START and SUCCESS_JSON_END, "J" and "K" are two JSON       *)
(* documents as DataFrame.to_json prints them ("J" the records of a        *)
(* preloaded dataset, "K" the records of a frame the user code computed),  *)
(* "x" is one character of any other text and "\n" is a line break.        *)
(***************************************************************************)
START == "S"
END == "E"
FrameDocs == {"J", "K"}
\* "N" is a JSON document that is not an array, such as a number
JsonDocs == FrameDocs \cup {"N"}
Newline == "\n"
Junk == "x"
Tokens == {START, END, Junk, Newline} \cup JsonDocs
\* tokens that stand for more than one character
MultiChar == {START, END} \cup JsonDocs

SeqsUpTo(S, n) == UNION {[1..k -> S] : k \in 0..n}

NoOutcome == [kind |-> "none", returncode |-> 0, stdout |-> <<>>, stderr |-> ""]
\* Parsed JSON: an array of objects or a number. An object is a sequence of
\* <<key, value>> pairs in the order of the text, its keys distinct. A value
\* is an integer, a float counted in hundredths, a string or null.
IntVal(n) == [t |-> "int", n |-> n, s |-> ""]
FloatVal(hundredths) == [t |-> "float", n |-> hundredths, s |-> ""]
StrVal(s) == [t |-> "str", n |-> 0, s |-> s]
NullVal == [t |-> "null", n |-> 0, s |-> ""]

JsonArray(items) == [type |-> "array", items |-> items, n |-> 0]
JsonNumber(n) == [type |-> "number", items |-> <<>>, n |-> n]
NoData == [type |-> "none", items |-> <<>>, n |-> 0]

\* the records of a preloaded dataset, and of a frame the user code computed
DatasetData == JsonArray(<< << <<"a", IntVal(1500)>>, <<"b", FloatVal(250)>> >> >>)
UserFrameData == JsonArray(<< << <<"a", IntVal(7)>> >>, << <<"a", NullVal>> >> >>)

\* json.loads of a document
json_loads(doc) ==
    CASE doc = "J" -> DatasetData
      [] doc = "K" -> UserFrameData
      [] OTHER -> JsonNumber(5)

NoKernelResult == [success |-> FALSE, error |-> <<>>, data |-> NoData]
NoExecReq == [language |-> "none", code |-> <<>>, selected_files |-> <<>>, env |-> <<>>]
NoHtml == [kind |-> "none", header |-> <<>>, rows |-> <<>>]
NoExecReply ==
    [status |-> 0, raised |-> "", success |-> FALSE, table_html |-> NoHtml, error |-> <<>>]

ExecIdle ==
    /\ execReq = NoExecReq
    /\ child = NoOutcome
    /\ kernelResult = NoKernelResult
    /\ execReply = NoExecReply
    /\ tmpLeft = FALSE

NoGenReq == [language |-> "none", selected_files |-> <<>>, env |-> <<>>]
NoGenReply ==
    [status |-> 0, raised |-> "", code |-> <<>>, success |-> FALSE, error |-> <<>>]

GenIdle ==
    /\ genReq = NoGenReq
    /\ genReply = NoGenReply

TableIdle ==
    /\ tableData = NoData
    /\ tableHtml = NoHtml

\* no register request is in flight
RaceIdle ==
    /\ racePc = <<>>
    /\ raceReq = <<>>
    /\ raceReply = <<>>

NoMapping == [built |-> FALSE, raised |-> "", names |-> {}, entries |-> <<>>]

\* no context is being built
MapIdle ==
    /\ mapFiles = <<>>
    /\ mapResult = NoMapping

\* no child is being followed
LoadIdle ==
    /\ loadLang = ""
    /\ loadPc = "idle"
    /\ loadGlobals = <<>>
    /\ loadFailed = {}
    /\ loadPos = 0
    /\ loadTables = {}

RestIdle == MapIdle /\ LoadIdle

(***************************************************************************)
(* models/user.py                                                          *)
(***************************************************************************)
\* mutant: the lookup compares the wrong column
User_find_by_username_WrongColumn(tbl, username) ==
    LET Match(r) == r[4] = username IN FetchOne(tbl, Match)

User_find_by_username(tbl, username) ==
    LET Match(r) == r[2] = username IN FetchOne(tbl, Match)

User_find_by_id(tbl, user_id) ==
    LET Match(r) == r[1] = user_id IN FetchOne(tbl, Match)

\* the users table after User.create
User_create(tbl, name, username, password, salt) ==
    Append(tbl, UserRow(LastRowId(tbl), username, hashpw(password, salt), name))

(***************************************************************************)
(* models/session.py                                                       *)
(***************************************************************************)
\* mutant: the raw token is stored
Session_create_StoresRaw(tbl, user_id, token, t) ==
    Append(tbl, SessionRow(LastRowId(tbl), user_id, token,
                           isoformat(t + SessionDays), 1))

\* the user_sessions table after Session.create for a freshly drawn token
Session_create(tbl, user_id, token, t) ==
    Append(tbl, SessionRow(LastRowId(tbl), user_id, sha256(token),
                           isoformat(t + SessionDays), 1))

\* mutant: the expiry is not compared
Session_find_by_token_NoExpiry(tbl, token, t) ==
    LET Match(r) == r[3] = sha256(token) /\ r[5] = 1
    IN  FetchOne(tbl, Match)

Session_find_by_token(tbl, token, t) ==
    LET Match(r) == /\ r[3] = sha256(token)
                    /\ r[5] = 1
                    /\ TextLess(isoformat(t), r[4])
    IN  FetchOne(tbl, Match)

\* the rows the UPDATE of cleanup_expired matches
\* mutant: the UPDATE does not look at is_active
SweepMatches_IgnoresActive(r, t) == TextLess(r[4], isoformat(t))

SweepMatches(r, t) == TextLess(r[4], isoformat(t)) /\ r[5] = 1

\* mutant: the sweep deletes the rows it matches
Session_cleanup_expired_Deletes(tbl, t) ==
    SelectSeq(tbl, LAMBDA r : ~SweepMatches(r, t))

\* the user_sessions table after Session.cleanup_expired
Session_cleanup_expired(tbl, t) ==
    [i \in 1..Len(tbl) |->
        IF SweepMatches(tbl[i], t) THEN [tbl[i] EXCEPT ![5] = 0] ELSE tbl[i]]

\* cursor.rowcount of that UPDATE
Session_cleanup_count(tbl, t) ==
    Cardinality({i \in 1..Len(tbl) : SweepMatches(tbl[i], t)})

\* mutant: the UPDATE matches the raw token
LogoutUpdate_RawToken(tbl, token) ==
    [i \in 1..Len(tbl) |->
        IF tbl[i][3] = token THEN [tbl[i] EXCEPT ![5] = 0] ELSE tbl[i]]

\* the user_sessions table after the UPDATE of logout
LogoutUpdate(tbl, token) ==
    [i \in 1..Len(tbl) |->
        IF tbl[i][3] = sha256(token) THEN [tbl[i] EXCEPT ![5] = 0] ELSE tbl[i]]

(***************************************************************************)
(* HTTP exchanges of routes/auth.py                                        *)
(***************************************************************************)
NoReply ==
    [op |-> "none", username |-> "", password |-> "", presented |-> NoToken,
     status |-> 0, detail |-> "", token |-> NoToken,
     user_id |-> 0, out_username |-> "", out_name |-> "", count |-> 0]

\* Python's row[i] on a fetched row: columns are numbered from 0
Col(row, i) == row[i + 1]

Request(op, username, password, presented) ==
    [NoReply EXCEPT !.op = op, !.username = username, !.password = password,
                    !.presented = presented]

HTTPException(req, status, detail) ==
    [req EXCEPT !.status = status, !.detail = detail]

\* register: the outcome [users, sessions, reply] for a freshly drawn token
register(utbl, stbl, name, username, password, salt, token, t) ==
    LET req == Request("register", username, password, NoToken)
        existing_user == User_find_by_username(utbl, username)
        user_id == LastRowId(utbl)
    IN  IF existing_user # NoRow
        THEN [users |-> utbl, sessions |-> stbl,
              reply |-> HTTPException(req, 400, "Username already registered")]
        ELSE [users |-> User_create(utbl, name, username, password, salt),
              sessions |-> Session_create(stbl, user_id, token, t),
              reply |-> [req EXCEPT !.status = 200, !.token = token]]

\* login: the outcome [sessions, reply] for a freshly drawn token
login(utbl, stbl, username, password, token, t) ==
    LET req == Request("login", username, password, NoToken)
        db_user == User_find_by_username(utbl, username)
    IN  IF db_user = NoRow
        THEN [sessions |-> stbl,
              reply |-> HTTPException(req, 400, "Incorrect username or password")]
        ELSE IF ~checkpw(password, Col(db_user, 2))
        THEN [sessions |-> stbl,
              reply |-> HTTPException(req, 400, "Incorrect username or password")]
        ELSE [sessions |-> Session_create(stbl, Col(db_user, 0), token, t),
              reply |-> [req EXCEPT !.status = 200, !.token = token]]

\* mutant: every session of the user the token belongs to is deactivated
logout_AllOfUser(stbl, token) ==
    LET owners == {stbl[i][2] : i \in {j \in 1..Len(stbl) : stbl[j][3] = sha256(token)}}
    IN  [sessions |-> [i \in 1..Len(stbl) |->
                         IF stbl[i][2] \in owners THEN [stbl[i] EXCEPT ![5] = 0]
                         ELSE stbl[i]],
         reply |-> [Request("logout", "", "", token) EXCEPT
                       !.status = 200, !.detail = "Successfully logged out"]]

\* logout: the outcome [sessions, reply]
logout(stbl, token) ==
    [sessions |-> LogoutUpdate(stbl, token),
     reply |-> [Request("logout", "", "", token) EXCEPT
                   !.status = 200, !.detail = "Successfully logged out"]]

\* mutant: the name is read from the password column
verify_token_WrongColumn(utbl, stbl, token, t) ==
    LET req == Request("verify", "", "", token)
        session_data == Session_find_by_token(stbl, token, t)
        user_data == User_find_by_id(utbl, Col(session_data, 1))
    IN  IF session_data = NoRow
        THEN HTTPException(req, 401, "Invalid or expired token")
        ELSE IF user_data = NoRow
        THEN HTTPException(req, 401, "User not found")
        ELSE [req EXCEPT !.status = 200,
                         !.user_id = Col(session_data, 1),
                         !.out_username = Col(user_data, 1),
                         !.out_name = Col(user_data, 1)]

\* verify_token: the reply
verify_token(utbl, stbl, token, t) ==
    LET req == Request("verify", "", "", token)
        session_data == Session_find_by_token(stbl, token, t)
        user_data == User_find_by_id(utbl, Col(session_data, 1))
    IN  IF session_data = NoRow
        THEN HTTPException(req, 401, "Invalid or expired token")
        ELSE IF user_data = NoRow
        THEN HTTPException(req, 401, "User not found")
        ELSE [req EXCEPT !.status = 200,
                         !.user_id = Col(session_data, 1),
                         !.out_username = Col(user_data, 1),
                         !.out_name = Col(user_data, 3)]

\* main.get_current_user: its own HTTPException is caught by "except Exception"
get_current_user(stbl, token, t) ==
    LET req == Request("get_current_user", "", "", token)
        session_data == Session_find_by_token(stbl, token, t)
    IN  IF session_data = NoRow
        THEN HTTPException(req, 401, "Could not validate credentials")
        ELSE [req EXCEPT !.status = 200, !.user_id = Col(session_data, 1)]

(***************************************************************************)
(* Actions of the credential and session service                           *)
(***************************************************************************)
AuthIdle ==
    /\ users = <<>>
    /\ sessions = <<>>
    /\ now = 0
    /\ nextToken = 1
    /\ reply = NoReply
    /\ registered = <<>>
    /\ issued = <<>>
    /\ loggedOut = {}

\* the other routers at rest
OffAuthIdle == DataIdle /\ ExecIdle /\ GenIdle /\ TableIdle /\ RaceIdle /\ RestIdle
OffDataIdle == AuthIdle /\ ExecIdle /\ GenIdle /\ TableIdle /\ RaceIdle /\ RestIdle
OffExecIdle == AuthIdle /\ DataIdle /\ TableIdle /\ RaceIdle /\ RestIdle

AuthInit ==
    /\ OffAuthIdle
    /\ users = <<>>
    /\ sessions = <<>>
    /\ now = 0
    /\ nextToken = 1
    /\ reply = NoReply
    /\ registered = <<>>
    /\ issued = <<>>
    /\ loggedOut = {}

Extend(f, k, v) == [x \in (DOMAIN f) \cup {k} |-> IF x = k THEN v ELSE f[x]]

\* the process is (re)started: lifespan startup connects, creates the tables
\* if absent, and sweeps; the database file keeps its rows across restarts
Startup ==
    /\ sessions' = Session_cleanup_expired(sessions, now)
    /\ reply' = [NoReply EXCEPT !.op = "startup",
                                !.count = Session_cleanup_count(sessions, now)]
    /\ UNCHANGED <<users, now, nextToken, registered, issued, loggedOut>>
    /\ UNCHANGED offAuth

\* time passes
Tick(d) ==
    /\ now + d <= MaxTime
    /\ now' = now + d
    /\ reply' = NoReply
    /\ UNCHANGED <<users, sessions, nextToken, registered, issued, loggedOut>>
    /\ UNCHANGED offAuth

Register(name, username, password, salt) ==
    /\ LET out == register(users, sessions, name, username, password, salt,
                           Token(nextToken), now)
       IN  /\ out.reply.status = 200 =>
                 Len(sessions) < MaxSessions
           /\ users' = out.users
           /\ sessions' = out.sessions
           /\ reply' = out.reply
           /\ IF out.reply.status = 200
              THEN /\ nextToken' = nextToken + 1
                   /\ registered' = Extend(registered, username,
                          [name |-> name, password |-> password,
                           id |-> LastRowId(users)])
                   /\ issued' = Extend(issued, out.reply.token,
                          [username |-> username, at |-> now, by |-> "register"])
              ELSE UNCHANGED <<nextToken, registered, issued>>
    /\ UNCHANGED <<now, loggedOut>>
    /\ UNCHANGED offAuth

Login(username, password) ==
    /\ LET out == login(users, sessions, username, password, Token(nextToken), now)
       IN  /\ out.reply.status = 200 => Len(sessions) < MaxSessions
           /\ sessions' = out.sessions
           /\ reply' = out.reply
           /\ IF out.reply.status = 200
              THEN /\ nextToken' = nextToken + 1
                   /\ issued' = Extend(issued, out.reply.token,
                          [username |-> username, at |-> now, by |-> "login"])
              ELSE UNCHANGED <<nextToken, issued>>
    /\ UNCHANGED <<users, now, registered, loggedOut>>
    /\ UNCHANGED offAuth

Logout(token) ==
    /\ LET out == logout(sessions, token)
       IN  /\ sessions' = out.sessions
           /\ reply' = out.reply
    /\ loggedOut' = loggedOut \cup {token}
    /\ UNCHANGED <<users, now, nextToken, registered, issued>>
    /\ UNCHANGED offAuth

Verify(token) ==
    /\ reply' = verify_token(users, sessions, token, now)
    /\ UNCHANGED <<users, sessions, now, nextToken, registered, issued, loggedOut>>
    /\ UNCHANGED offAuth

GetCurrentUser(token) ==
    /\ reply' = get_current_user(sessions, token, now)
    /\ UNCHANGED <<users, sessions, now, nextToken, registered, issued, loggedOut>>
    /\ UNCHANGED offAuth

AuthNext ==
    \/ Startup
    \/ \E d \in Elapsed : Tick(d)
    \/ \E n \in Names, u \in Usernames, p \in Passwords, s \in Salts : Register(n, u, p, s)
    \/ \E u \in Usernames, p \in Passwords : Login(u, p)
    \/ \E t \in Presentable : Logout(t)
    \/ \E t \in Presentable : Verify(t)
    \/ \E t \in Presentable : GetCurrentUser(t)

AuthSpec == AuthInit /\ [][AuthNext]_vars

(***************************************************************************)
(* Claims about the credential and session service (AuthSpec)              *)
(***************************************************************************)
\* the instant an expires_at text denotes
FromIso(text) == text[1] * 10 + text[2]

IsVerifyReply == reply.op \in {"verify", "get_current_user"}

\* a session row the presented token may use at time t
Usable(r, token, t) ==
    /\ r[3] = sha256(token)
    /\ r[5] = 1
    /\ t < FromIso(r[4])

\* C1: verify and get_current_user succeed only if some session row holds the
\* hash of the presented token, has its active flag set and expires strictly
\* after the current time.
C1_VerifyOnlyUsable ==
    (IsVerifyReply /\ reply.status = 200) =>
        \E i \in 1..Len(sessions) : Usable(sessions[i], reply.presented, now)

\* C1 witness: verify has just failed for a token whose session is still
\* flagged active but whose expiry is not in the future (no sweep since).
C1_Witness ==
    /\ reply.op = "verify"
    /\ reply.status = 401
    /\ \E i \in 1..Len(sessions) :
          /\ sessions[i][3] = sha256(reply.presented)
          /\ sessions[i][5] = 1
          /\ FromIso(sessions[i][4]) <= now

\* C2: once logout(token) has returned, every later verify of that token
\* (and get_current_user) fails with 401, whatever happened in between.
C2_LoggedOutStaysOut ==
    (IsVerifyReply /\ reply.presented \in loggedOut) => reply.status = 401

\* C2 witness: verify has just failed for an issued, unexpired token that was
\* logged out, after a later login created another session.
C2_Witness ==
    /\ reply.op = "verify"
    /\ reply.status = 401
    /\ reply.presented \in loggedOut
    /\ reply.presented \in DOMAIN issued
    /\ now < issued[reply.presented].at + SessionDays
    /\ \E t \in DOMAIN issued :
          issued[t].by = "login" /\ issued[t].at > issued[reply.presented].at

\* C3: login with the registered password returns a token, and verify of a
\* token that was issued, is not logged out and is younger than the session
\* lifetime succeeds and reports the registered id, username and name.
C3_RegisterLoginVerify ==
    /\ (/\ reply.op = "login"
        /\ reply.username \in DOMAIN registered
        /\ reply.password = registered[reply.username].password)
       => (reply.status = 200 /\ reply.token # NoToken)
    /\ (/\ reply.op = "verify"
        /\ reply.presented \in DOMAIN issued
        /\ reply.presented \notin loggedOut
        /\ now < issued[reply.presented].at + SessionDays)
       => LET u == issued[reply.presented].username
          IN  /\ reply.status = 200
              /\ reply.user_id = registered[u].id
              /\ reply.out_username = u
              /\ reply.out_name = registered[u].name

\* C3 witness: verify has just succeeded, after time has passed, for a token
\* returned by a login.
C3_Witness ==
    /\ reply.op = "verify"
    /\ reply.status = 200
    /\ reply.presented \in DOMAIN issued
    /\ issued[reply.presented].by = "login"
    /\ now > issued[reply.presented].at

BadCredentials(r) ==
    \/ r.username \notin DOMAIN registered
    \/ r.password # registered[r.username].password

\* C4: a login with an unregistered username or with a password other than
\* the registered one is answered 400 with the same detail in both cases,
\* returns no token and changes neither table.
C4_BadLoginRejected ==
    [][(reply'.op = "login" /\ BadCredentials(reply')) =>
          /\ reply'.status = 400
          /\ reply'.detail = "Incorrect username or password"
          /\ reply'.token = NoToken
          /\ users' = users
          /\ sessions' = sessions]_vars

\* C4 witness: a login with a registered username and the wrong password has
\* just been rejected.
C4_Witness ==
    /\ reply.op = "login"
    /\ reply.status = 400
    /\ reply.username \in DOMAIN registered
    /\ reply.password # registered[reply.username].password

UniqueUsernames ==
    \A i, j \in 1..Len(users) : users[i][2] = users[j][2] => i = j

\* C5: register with a username that is already registered is answered 400
\* "Username already registered", returns no token and changes neither table;
\* no two user rows ever share a username.
C5_DuplicateRejected ==
    [][/\ (reply'.op = "register" /\ reply'.username \in DOMAIN registered) =>
              /\ reply'.status = 400
              /\ reply'.detail = "Username already registered"
              /\ reply'.token = NoToken
              /\ users' = users
              /\ sessions' = sessions
       /\ UniqueUsernames']_vars

\* C5 witness: a register for an existing username, with another password,
\* has just been rejected while two users exist.
C5_Witness ==
    /\ reply.op = "register"
    /\ reply.status = 400
    /\ Len(users) = 2
    /\ reply.password # registered[reply.username].password

\* every session row holds the hash of an issued token and no raw token
RowsHoldOnlyHashes ==
    \A i \in 1..Len(sessions) :
        /\ sessions[i][3] \in {sha256(t) : t \in DOMAIN issued}
        /\ sessions[i][3] \notin Presentable

\* C6: session rows hold only token hashes, and a raw token appears in a
\* reply only of the register or login call that created its session: it was
\* not issued before that call.
C6_RawTokenNeverStored ==
    [][/\ RowsHoldOnlyHashes'
       /\ reply'.token # NoToken =>
              /\ reply'.op \in {"register", "login"}
              /\ reply'.token \notin DOMAIN issued
              /\ reply'.token \in DOMAIN issued'
              /\ sessions'[Len(sessions')][3] = sha256(reply'.token)]_vars

\* C6 witness: two sessions exist, one logged out, and a verify of an issued
\* token has just been answered without any token in the reply.
C6_Witness ==
    /\ Len(sessions) = 2
    /\ reply.op = "verify"
    /\ reply.presented \in DOMAIN issued
    /\ reply.status = 200
    /\ reply.token = NoToken
    /\ loggedOut # {}

(***************************************************************************)
(* routes/data.py                                                          *)
(***************************************************************************)
\* bucket.exists()
Bucket_exists(store, b) == b \in DOMAIN store
\* blob.exists(): False when the object or its bucket is missing
Blob_exists(store, b, f) == b \in DOMAIN store /\ f \in DOMAIN store[b]

DataResult(status, detail, body) ==
    [status |-> status, detail |-> detail, body |-> body]

\* get_gcs_client's own HTTPException
ClientFailure ==
    DataResult(500, <<"Failed to initialize GCS client. Make sure you're logged in with 'gcloud auth login': ",
                      ProviderMessage>>, <<>>)

\* one entry of a listing
FileEntry(store, b, f) == [name |-> f, size |-> Len(store[b][f])]

\* mutant: the listing does not check that the bucket exists, so the
\* provider's not-found error reaches the generic handler
get_bucket_files_NoExistsCheck(store, bucket_name, fault) ==
    IF fault = "client" THEN ClientFailure
    ELSE IF fault = "provider" \/ ~Bucket_exists(store, bucket_name)
    THEN DataResult(500, <<"Failed to list files: ", ProviderMessage>>, <<>>)
    ELSE LET present(f) == f \in DOMAIN store[bucket_name]
             names == SelectSeq(FileOrder, present)
         IN  DataResult(200, <<>>,
                 [i \in 1..Len(names) |-> FileEntry(store, bucket_name, names[i])])

get_bucket_files(store, bucket_name, fault) ==
    IF fault = "client" THEN ClientFailure
    ELSE IF fault = "provider"
    THEN DataResult(500, <<"Failed to list files: ", ProviderMessage>>, <<>>)
    ELSE IF ~Bucket_exists(store, bucket_name)
    THEN DataResult(404, <<"Bucket '", bucket_name, "' not found">>, <<>>)
    ELSE LET present(f) == f \in DOMAIN store[bucket_name]
             names == SelectSeq(FileOrder, present)
         IN  DataResult(200, <<>>,
                 [i \in 1..Len(names) |-> FileEntry(store, bucket_name, names[i])])

\* file["source"] = ..., file["bucket"] = ... on the entries of a listing
Tagged(files, source, bucket) ==
    [i \in 1..Len(files) |->
        [name |-> files[i].name, size |-> files[i].size,
         source |-> source, bucket |-> bucket]]

\* mutant: public files are appended without looking for an uploaded file
\* of the same name
get_combined_files_NoPriority(store, public_bucket, fault1, fault2) ==
    IF public_bucket = ""
    THEN DataResult(200, <<>>, <<>>)
    ELSE LET default_files == get_bucket_files(store, DEFAULT_BUCKET, fault1)
             uploaded == IF default_files.status = 200
                         THEN Tagged(default_files.body, "uploaded", DEFAULT_BUCKET)
                         ELSE <<>>
             public_files == get_bucket_files(store, public_bucket, fault2)
             public == IF public_bucket # DEFAULT_BUCKET /\ public_files.status = 200
                       THEN Tagged(public_files.body, "public", public_bucket)
                       ELSE <<>>
         IN  DataResult(200, <<>>, uploaded \o public)

\* get_combined_files: a listing that raises (any status but 200) is dropped
get_combined_files(store, public_bucket, fault1, fault2) ==
    IF public_bucket = ""
    THEN DataResult(200, <<>>, <<>>)
    ELSE LET default_files == get_bucket_files(store, DEFAULT_BUCKET, fault1)
             uploaded == IF default_files.status = 200
                         THEN Tagged(default_files.body, "uploaded", DEFAULT_BUCKET)
                         ELSE <<>>
             public_files == get_bucket_files(store, public_bucket, fault2)
             fresh(file) == \A i \in 1..Len(uploaded) : uploaded[i].name # file.name
             public == IF public_bucket # DEFAULT_BUCKET /\ public_files.status = 200
                       THEN Tagged(SelectSeq(public_files.body, fresh), "public", public_bucket)
                       ELSE <<>>
         IN  DataResult(200, <<>>, uploaded \o public)

\* file_name.lower().split('.')[-1]
Extension(f) ==
    CASE f = "a.csv" -> "csv"
      [] f = "b.json" -> "json"
      [] OTHER -> f

\* pd.read_csv: the first line is the header, every other line a row
read_csv(content) == [columns |-> Head(content), rows |-> Tail(content)]

IntFields == {"1", "2"}
FieldInt(field) == IF field = "1" THEN 1 ELSE 2

\* the dtype pandas infers for column c
Dtype(df, c) ==
    IF df.rows # <<>> /\ \A r \in 1..Len(df.rows) : df.rows[r][c] \in IntFields
    THEN "int64" ELSE "object"

\* df.head(n): the first n rows, or all but the last -n rows
DfHead(df, n) ==
    IF n >= 0
    THEN SubSeq(df.rows, 1, IF n < Len(df.rows) THEN n ELSE Len(df.rows))
    ELSE SubSeq(df.rows, 1, Len(df.rows) + n)

\* to_dict('records')
ToRecords(df, rows) ==
    [r \in 1..Len(rows) |->
        [c \in 1..Len(df.columns) |->
            <<df.columns[c],
              IF Dtype(df, c) = "int64" THEN IntVal(FieldInt(rows[r][c]))
              ELSE StrVal(rows[r][c])>>]]

PyMin(a, b) == IF a < b THEN a ELSE b

PreviewBody(type, data, columns, rows, rowsShown, totalRows) ==
    [type |-> type, data |-> data, columns |-> columns, rows |-> rows,
     rowsShown |-> rowsShown, totalRows |-> totalRows]

\* the csv branch of preview_file
CsvPreview(content, rows) ==
    LET df == read_csv(content)
    IN  PreviewBody("csv", <<>>,
            [c \in 1..Len(df.columns) |->
                [name |-> df.columns[c],
                 type |-> IF Dtype(df, c) = "int64" THEN "int" ELSE "string",
                 dtype |-> Dtype(df, c)]],
            ToRecords(df, DfHead(df, rows)),
            PyMin(rows, Len(df.rows)),
            Len(df.rows))

\* preview_file; the texts here are not JSON, so a .json file takes the
\* JSONDecodeError branch
preview_file(store, bucket_name, file_name, rows, fault) ==
    IF fault = "client" THEN ClientFailure
    ELSE IF fault = "provider"
    THEN DataResult(500, <<"Failed to preview file: ", ProviderMessage>>, <<>>)
    ELSE IF ~Blob_exists(store, bucket_name, file_name)
    THEN DataResult(404, <<"File '", file_name, "' not found in bucket '", bucket_name, "'">>, <<>>)
    ELSE LET content == store[bucket_name][file_name]
         IN  IF Extension(file_name) = "csv"
             THEN IF content = <<>>
                  THEN DataResult(500, <<"Failed to preview file: ",
                                         "No columns to parse from file">>, <<>>)
                  ELSE DataResult(200, <<>>, <<CsvPreview(content, rows)>>)
             ELSE DataResult(200, <<>>,
                     <<PreviewBody(Extension(file_name), content, <<>>, <<>>, 0, 0)>>)

\* upload_to_default_bucket: the outcome [store, result]; its two HTTPException
\* (400) are raised inside the try and caught by "except Exception"
upload_to_default_bucket(store, filename, content, fault) ==
    IF filename = ""
    THEN [store |-> store,
          result |-> DataResult(500, <<"Failed to upload file: ", "400: No filename provided">>, <<>>)]
    ELSE IF Len(content) = 0
    THEN [store |-> store,
          result |-> DataResult(500, <<"Failed to upload file: ", "400: Empty file provided">>, <<>>)]
    ELSE IF fault = "client"
    THEN [store |-> store,
          result |-> DataResult(500, <<"Failed to upload file: ", "500: ",
                                     ClientFailure.detail[1], ProviderMessage>>, <<>>)]
    ELSE IF fault = "provider" \/ ~Bucket_exists(store, DEFAULT_BUCKET)
    THEN [store |-> store,
          result |-> DataResult(500, <<"Failed to upload file: ", ProviderMessage>>, <<>>)]
    ELSE [store |-> [store EXCEPT ![DEFAULT_BUCKET] =
                        [f \in (DOMAIN @) \cup {filename} |->
                            IF f = filename THEN content ELSE @[f]]],
          result |-> DataResult(200, <<"File '", filename, "' uploaded successfully">>,
                                <<[filename |-> filename, size |-> Len(content)]>>)]

\* mutant: the bucket name is not compared with the default bucket
delete_file_AnyBucket(store, bucket_name, file_name, fault) ==
    IF fault = "client" THEN [store |-> store, result |-> ClientFailure]
    ELSE IF fault = "provider"
    THEN [store |-> store,
          result |-> DataResult(500, <<"Failed to delete file: ", ProviderMessage>>, <<>>)]
    ELSE IF ~Blob_exists(store, bucket_name, file_name)
    THEN [store |-> store,
          result |-> DataResult(404, <<"File '", file_name, "' not found">>, <<>>)]
    ELSE [store |-> [store EXCEPT ![bucket_name] =
                        [f \in (DOMAIN @) \ {file_name} |-> @[f]]],
          result |-> DataResult(200, <<"File '", file_name, "' deleted successfully">>, <<>>)]

\* delete_file: the outcome [store, result]
delete_file(store, bucket_name, file_name, fault) ==
    IF bucket_name = DEFAULT_BUCKET
    THEN IF fault = "client" THEN [store |-> store, result |-> ClientFailure]
         ELSE IF fault = "provider"
         THEN [store |-> store,
               result |-> DataResult(500, <<"Failed to delete file: ", ProviderMessage>>, <<>>)]
         ELSE IF ~Blob_exists(store, bucket_name, file_name)
         THEN [store |-> store,
               result |-> DataResult(404, <<"File '", file_name, "' not found">>, <<>>)]
         ELSE [store |-> [store EXCEPT ![bucket_name] =
                             [f \in (DOMAIN @) \ {file_name} |-> @[f]]],
               result |-> DataResult(200, <<"File '", file_name, "' deleted successfully">>, <<>>)]
    ELSE [store |-> store,
          result |-> DataResult(403, <<"File deletion not supported for public buckets. Use authenticated access for write operations.">>, <<>>)]

(***************************************************************************)
(* Actions of the storage browser                                          *)
(***************************************************************************)
\* a request, what the provider did while it was served, and the response
DataExchange(op, bucket, file, faults, result) ==
    [op |-> op, bucket |-> bucket, file |-> file, faults |-> faults, rows |-> 0,
     content |-> <<>>, status |-> result.status, detail |-> result.detail, body |-> result.body]

DataInit ==
    /\ OffDataIdle
    /\ buckets = InitialBuckets
    /\ dataReply = NoDataReply

ListFiles(b, fault) ==
    /\ dataReply' = DataExchange("list", b, "", <<fault>>, get_bucket_files(buckets, b, fault))
    /\ UNCHANGED <<buckets, offData>>

\* get_default_bucket_files
ListDefault(fault) ==
    /\ dataReply' = DataExchange("list_default", DEFAULT_BUCKET, "", <<fault>>,
                                 get_bucket_files(buckets, DEFAULT_BUCKET, fault))
    /\ UNCHANGED <<buckets, offData>>

CombinedFiles(pb, fault1, fault2) ==
    /\ dataReply' = DataExchange("combined", pb, "", <<fault1, fault2>>,
                                 get_combined_files(buckets, pb, fault1, fault2))
    /\ UNCHANGED <<buckets, offData>>

Preview(b, f, rows, fault) ==
    /\ dataReply' = [DataExchange("preview", b, f, <<fault>>,
                                  preview_file(buckets, b, f, rows, fault))
                       EXCEPT !.rows = rows]
    /\ UNCHANGED <<buckets, offData>>

Upload(f, content, fault) ==
    /\ LET out == upload_to_default_bucket(buckets, f, content, fault)
       IN  /\ buckets' = out.store
           /\ dataReply' = [DataExchange("upload", DEFAULT_BUCKET, f, <<fault>>, out.result)
                               EXCEPT !.content = content]
    /\ UNCHANGED offData

Delete(b, f, fault) ==
    /\ LET out == delete_file(buckets, b, f, fault)
       IN  /\ buckets' = out.store
           /\ dataReply' = DataExchange("delete", b, f, <<fault>>, out.result)
    /\ UNCHANGED offData

DataNext ==
    \/ \E b \in BucketNames, fault \in Faults : ListFiles(b, fault)
    \/ \E fault \in Faults : ListDefault(fault)
    \/ \E pb \in BucketNames \cup {""}, f1, f2 \in Faults : CombinedFiles(pb, f1, f2)
    \/ \E b \in BucketNames, f \in FileNames, rows \in RequestedRows, fault \in Faults :
            Preview(b, f, rows, fault)
    \/ \E f \in FileNames \cup {""}, c \in Contents, fault \in Faults : Upload(f, c, fault)
    \/ \E b \in BucketNames, f \in FileNames, fault \in Faults : Delete(b, f, fault)

DataSpec == DataInit /\ [][DataNext]_vars

(***************************************************************************)
(* Claims about the storage browser (DataSpec)                             *)
(***************************************************************************)
\* C7: delete on a bucket other than the default bucket is answered 403
\* whether or not the file exists, and no step of the service changes the
\* contents of a bucket other than the default bucket.
C7_OnlyDefaultBucketWritten ==
    [][/\ (dataReply'.op = "delete" /\ dataReply'.bucket # DEFAULT_BUCKET) =>
              dataReply'.status = 403
       /\ DOMAIN buckets' = DOMAIN buckets
       /\ \A b \in DOMAIN buckets : b # DEFAULT_BUCKET => buckets'[b] = buckets[b]]_vars

\* C7 witness: after an upload changed the default bucket, a delete of a
\* file that exists in the public bucket has just been answered 403.
C7_Witness ==
    /\ dataReply.op = "delete"
    /\ dataReply.bucket = PublicBucket
    /\ Blob_exists(buckets, PublicBucket, dataReply.file)
    /\ dataReply.status = 403
    /\ buckets[DEFAULT_BUCKET] # InitialBuckets[DEFAULT_BUCKET]

\* the request named a bucket or a file that the store does not hold
Missing(r, store) ==
    \/ r.op = "list" /\ ~Bucket_exists(store, r.bucket)
    \/ r.op = "preview" /\ ~Blob_exists(store, r.bucket, r.file)
    \/ r.op = "delete" /\ r.bucket = DEFAULT_BUCKET /\ ~Blob_exists(store, r.bucket, r.file)

\* the provider is called while the request is served, and raises
ProviderRaised(r) ==
    /\ r.op \in {"list", "preview", "delete"}
    /\ r.op = "delete" => r.bucket = DEFAULT_BUCKET
    /\ r.faults # <<"none">>

\* the names a combined-files reply should hold as uploaded: the files of the
\* default bucket, unless its listing failed
UploadedNames(r, store) ==
    IF r.faults[1] = "none" /\ Bucket_exists(store, DEFAULT_BUCKET)
    THEN DOMAIN store[DEFAULT_BUCKET] ELSE {}

\* the names it should hold as public: the files of the public bucket that
\* no uploaded file shares a name with, unless its listing failed (the
\* default bucket given as the public one is listed once, as the default)
PublicNames(r, store) ==
    IF r.bucket = DEFAULT_BUCKET THEN {}
    ELSE IF r.faults[2] = "none" /\ Bucket_exists(store, r.bucket)
    THEN DOMAIN store[r.bucket] \ UploadedNames(r, store) ELSE {}

EntriesOf(r, source) == {i \in 1..Len(r.body) : r.body[i].source = source}

\* C21: combined-files returns an empty list when no public bucket is given;
\* otherwise every default-bucket file tagged 'uploaded' and each
\* public-bucket file tagged 'public' only when no uploaded file has its
\* name, so no two entries share a name; a bucket whose listing fails is
\* left out and the request still succeeds.
C21_CombinedFiles ==
    dataReply.op = "combined" =>
        /\ dataReply.status = 200
        /\ dataReply.bucket = "" => dataReply.body = <<>>
        /\ dataReply.bucket # "" =>
            /\ \A i \in 1..Len(dataReply.body) : dataReply.body[i].source \in {"uploaded", "public"}
            /\ {dataReply.body[i].name : i \in EntriesOf(dataReply, "uploaded")}
                    = UploadedNames(dataReply, buckets)
            /\ {dataReply.body[i].name : i \in EntriesOf(dataReply, "public")}
                    = PublicNames(dataReply, buckets)
            /\ \A i \in EntriesOf(dataReply, "uploaded") : dataReply.body[i].bucket = DEFAULT_BUCKET
            /\ \A i \in EntriesOf(dataReply, "public") : dataReply.body[i].bucket = dataReply.bucket
            /\ \A i, j \in 1..Len(dataReply.body) :
                    dataReply.body[i].name = dataReply.body[j].name => i = j

\* a combined listing that holds an uploaded file whose name a public file
\* shares, and another public file
C21_Witness ==
    /\ dataReply.op = "combined"
    /\ dataReply.bucket = PublicBucket
    /\ dataReply.faults = <<"none", "none">>
    /\ \E i \in EntriesOf(dataReply, "uploaded") :
            dataReply.body[i].name \in DOMAIN buckets[PublicBucket]
    /\ EntriesOf(dataReply, "public") # {}

\* the default bucket of a store with the object written
WithObject(store, filename, content) ==
    [store EXCEPT ![DEFAULT_BUCKET] =
        [f \in (DOMAIN @) \cup {filename} |-> IF f = filename THEN content ELSE @[f]]]

\* C22: an upload with no filename or with empty content is rejected with
\* 400 and writes no object; only an upload with a filename and non-empty
\* content creates or overwrites the object of that name in the default
\* bucket.
C22_UploadValidation ==
    [][dataReply'.op = "upload" =>
         /\ (dataReply'.file = "" \/ dataReply'.content = <<>>) =>
                /\ dataReply'.status = 400
                /\ buckets' = buckets
         /\ buckets' # buckets =>
                /\ dataReply'.file # ""
                /\ dataReply'.content # <<>>
                /\ buckets' = WithObject(buckets, dataReply'.file, dataReply'.content)]_vars

\* an upload of an empty file under a name has been refused and the default
\* bucket holds no object of that name
C22_Witness ==
    /\ dataReply.op = "upload"
    /\ dataReply.file # ""
    /\ dataReply.content = <<>>
    /\ dataReply.status # 200
    /\ dataReply.file \notin DOMAIN buckets[DEFAULT_BUCKET]

\* C8: list of a missing bucket, preview of a missing file and delete of a
\* missing file in the default bucket are answered 404, not 500, and change
\* no object; when the provider raises in one of these operations the answer
\* is 500, its detail ends with the provider's message, and no object changes.
C8_NotFoundAndProviderErrors ==
    [][/\ (Missing(dataReply', buckets) /\ ~ProviderRaised(dataReply')) =>
              /\ dataReply'.status = 404
              /\ buckets' = buckets
       /\ ProviderRaised(dataReply') =>
              /\ dataReply'.status = 500
              /\ dataReply'.detail[Len(dataReply'.detail)] = ProviderMessage
              /\ buckets' = buckets]_vars

\* C8 witness: a delete of a file that the default bucket does not hold has
\* just been answered 404 while the bucket holds another file.
C8_Witness ==
    /\ dataReply.op = "delete"
    /\ dataReply.bucket = DEFAULT_BUCKET
    /\ dataReply.faults = <<"none">>
    /\ dataReply.status = 404
    /\ buckets[DEFAULT_BUCKET] # NoFile
    /\ dataReply.file \notin DOMAIN buckets[DEFAULT_BUCKET]

(***************************************************************************)
(* routes/code_generation.py: execute_python_code_in_kernel                *)
(***************************************************************************)
\* str.find: the first position of a token, 0 when absent
RECURSIVE FindFrom(_, _, _)
FindFrom(out, tok, i) ==
    IF i > Len(out) THEN 0
    ELSE IF out[i] = tok THEN i
    ELSE FindFrom(out, tok, i + 1)

Find(out, tok) == FindFrom(out, tok, 1)

\* "tok in output"
Contains(out, tok) == Find(out, tok) # 0

\* str.strip() of line breaks
RECURSIVE LStrip(_)
LStrip(s) == IF s # <<>> /\ Head(s) = Newline THEN LStrip(Tail(s)) ELSE s

RECURSIVE RStrip(_)
RStrip(s) ==
    IF s # <<>> /\ s[Len(s)] = Newline THEN RStrip(SubSeq(s, 1, Len(s) - 1)) ELSE s

Strip(s) == RStrip(LStrip(s))

\* the text from the end of the first START literal to the first END literal
\* (empty when END comes first)
AfterStart(out) ==
    LET i == Find(out, START)
        j == Find(out, END)
    IN  IF i < j THEN SubSeq(out, i + 1, j - 1) ELSE <<>>

\* output[json_start:json_end] with
\* json_start = output.find(START) + len(START) + 1: the character after the
\* literal is skipped; of a longer token its remainder is left
JsonSlice(out) ==
    LET t == AfterStart(out)
    IN  IF t = <<>> THEN <<>>
        ELSE IF Head(t) \in MultiChar THEN <<Junk>> \o Tail(t)
        ELSE Tail(t)

\* json.loads accepts exactly one JSON document
JsonValid(text) == Len(text) = 1 /\ text[1] \in JsonDocs

KernelReturn(success, error, data, left) ==
    [result |-> [success |-> success, error |-> error, data |-> data], left |-> left]

\* execute_python_code_in_kernel on the outcome of subprocess.run: what it
\* returns, and whether the temporary file is left behind
execute_python_code_in_kernel(outcome) ==
    IF outcome.kind = "launch_failed"
    THEN KernelReturn(FALSE, <<"Execution error: ", "OSError">>, NoData, TRUE)
    ELSE IF outcome.kind = "timeout"
    THEN KernelReturn(FALSE, <<"Code execution timed out">>, NoData, TRUE)
    ELSE IF outcome.returncode # 0
    THEN KernelReturn(FALSE, <<"Code execution failed: ", outcome.stderr>>, NoData, FALSE)
    ELSE IF Contains(outcome.stdout, START) /\ Contains(outcome.stdout, END)
    THEN LET json_str == Strip(JsonSlice(outcome.stdout))
         IN  IF JsonValid(json_str)
             THEN KernelReturn(TRUE, <<>>, json_loads(json_str[1]), FALSE)
             ELSE KernelReturn(FALSE, <<"Failed to parse JSON result: ", "JSONDecodeError">>, NoData, FALSE)
    ELSE KernelReturn(FALSE, <<"No valid result found in code output">>, NoData, FALSE)

\* what subprocess.run can end with
Exited(returncode, stdout, stderr) ==
    [kind |-> "exited", returncode |-> returncode, stdout |-> stdout, stderr |-> stderr]
TimedOut == [NoOutcome EXCEPT !.kind = "timeout"]
LaunchFailed == [NoOutcome EXCEPT !.kind = "launch_failed"]

Running(stdout) == [NoOutcome EXCEPT !.kind = "running", !.stdout = stdout]

(***************************************************************************)
(* The kernel beside a child process that writes what it likes and ends    *)
(* as it likes (KernelSpec)                                                *)
(***************************************************************************)
KernelInit ==
    /\ OffExecIdle
    /\ ExecIdle
    /\ GenIdle

\* the parent returns from (or is thrown out of) subprocess.run
KernelReturns(outcome) ==
    /\ child' = outcome
    /\ LET r == execute_python_code_in_kernel(outcome)
       IN  /\ kernelResult' = r.result
           /\ tmpLeft' = r.left
    /\ UNCHANGED <<execReq, execReply, genVars, offExec>>

\* the source file is written and the child is started
Launch ==
    /\ child.kind # "running"
    /\ child' = Running(<<>>)
    /\ kernelResult' = NoKernelResult
    /\ tmpLeft' = TRUE
    /\ UNCHANGED <<execReq, execReply, genVars, offExec>>

\* the child cannot be started
LaunchFails ==
    /\ child.kind # "running"
    /\ KernelReturns(LaunchFailed)

\* the child writes to its standard output
ChildWrites(tok) ==
    /\ child.kind = "running"
    /\ Len(child.stdout) < MaxOut
    /\ child' = Running(Append(child.stdout, tok))
    /\ UNCHANGED <<kernelResult, tmpLeft, execReq, execReply, genVars, offExec>>

\* the child ends with an exit code
ChildExits(returncode) ==
    /\ child.kind = "running"
    /\ KernelReturns(Exited(returncode, child.stdout,
                            IF returncode = 0 THEN "" ELSE "Traceback"))

\* the child is still running after the time limit
ChildTimesOut ==
    /\ child.kind = "running"
    /\ KernelReturns(TimedOut)

KernelNext ==
    \/ Launch
    \/ LaunchFails
    \/ \E tok \in Tokens : ChildWrites(tok)
    \/ \E returncode \in {0, 1} : ChildExits(returncode)
    \/ ChildTimesOut

KernelSpec == KernelInit /\ [][KernelNext]_vars

(***************************************************************************)
(* Claims about the kernel                                                 *)
(***************************************************************************)
BothSentinels(out) == Contains(out, START) /\ Contains(out, END)

\* valid JSON lies between the first START literal and the first END literal
ValidJsonBetween(out) == JsonValid(Strip(AfterStart(out)))

KernelMessages ==
    {"Code execution timed out", "Code execution failed: ",
     "No valid result found in code output", "Failed to parse JSON result: "}

KernelFailure(message) ==
    /\ ~kernelResult.success
    /\ kernelResult.error[1] = message

\* C9: every outcome of the child gets exactly one of four distinct failure
\* causes or success: over the time limit gives the timeout message, a
\* nonzero exit code the process-failure message whatever standard output
\* holds, exit 0 without both sentinels the protocol-absence message, exit 0
\* with both sentinels and non-JSON text between them the parse-failure
\* message, and success comes only with exit 0 and valid JSON between the
\* sentinels.
C9_OutcomeClassification ==
    /\ Cardinality(KernelMessages) = 4
    /\ child.kind = "timeout" => KernelFailure("Code execution timed out")
    /\ child.kind = "exited" =>
        /\ child.returncode # 0 => KernelFailure("Code execution failed: ")
        /\ child.returncode = 0 /\ ~BothSentinels(child.stdout)
            => KernelFailure("No valid result found in code output")
        /\ child.returncode = 0 /\ BothSentinels(child.stdout)
                /\ ~ValidJsonBetween(child.stdout)
            => KernelFailure("Failed to parse JSON result: ")
    /\ kernelResult.success =>
        /\ child.kind = "exited"
        /\ child.returncode = 0
        /\ BothSentinels(child.stdout)
        /\ ValidJsonBetween(child.stdout)

\* the child exited with 0 and wrote something other than JSON between the
\* sentinels, and the kernel reported success
C9_Witness ==
    /\ child.kind = "exited"
    /\ child.returncode = 0
    /\ BothSentinels(child.stdout)
    /\ ~ValidJsonBetween(child.stdout)
    /\ kernelResult.success

(***************************************************************************)
(* routes/code_generation.py: the program the child runs                   *)
(*                                                                         *)
(* The globals of the child are a sequence of bindings in the order the    *)
(* names were first bound. A DataFrame is written as the JSON document its *)
(* to_json prints, anything else as "None".                                *)
(***************************************************************************)
Datasets ==
    <<"olist_orders_dataset", "circuits", "constructor_results",
      "constructor_standings", "constructors", "driver_standings", "drivers",
      "pit_stops", "qualifying", "races", "results", "seasons",
      "sprint_results", "status">>

DatasetIds == 1..Len(Datasets)

\* the sets of datasets whose load fails that a run is tried with
LoadFailures == {{}, {1}, {Len(Datasets)}, DatasetIds}

\* n lines of text that hold no sentinel
RECURSIVE LogLines(_)
LogLines(n) == IF n = 0 THEN <<>> ELSE <<Junk, Newline>> \o LogLines(n - 1)

HasName(g, name) == \E i \in 1..Len(g) : g[i].name = name

Lookup(g, name) == g[CHOOSE i \in 1..Len(g) : g[i].name = name].value

\* an assignment: a bound name keeps its place, a new one goes last
Bind(g, name, value) ==
    IF HasName(g, name)
    THEN [i \in 1..Len(g) |-> IF g[i].name = name
                              THEN [name |-> name, value |-> value] ELSE g[i]]
    ELSE Append(g, [name |-> name, value |-> value])

IsFrame(binding) == binding.value \in FrameDocs

\* the try/except around every read_csv: a failed load binds None
Preamble(failed) ==
    [i \in DatasetIds |->
        [name |-> Datasets[i], value |-> IF i \in failed THEN "None" ELSE "J"]]

\* the lines appended by execute_python_code_in_kernel
Epilogue(g, out) ==
    LET _candidate_names == SelectSeq(g, IsFrame)
        g2 == IF ~HasName(g, "ans_df") /\ _candidate_names # <<>>
              THEN Bind(g, "ans_df", _candidate_names[Len(_candidate_names)].value)
              ELSE g
    IN  IF HasName(g2, "ans_df")
        THEN IF Lookup(g2, "ans_df") \in FrameDocs
             THEN Exited(0, out \o <<START, Newline, Lookup(g2, "ans_df"), Newline,
                                     END, Newline>>, "")
             ELSE Exited(1, out, "Traceback")
        ELSE Exited(0, out \o LogLines(1), "")

\* what a piece of Python user code does: the text it prints, the names it
\* binds, and how it ends
PythonBinds == {"nothing", "ans_df", "ans_df_none", "new_name", "rebinds_dataset"}
PythonEnds == {"returns", "raises", "exits", "syntax_error"}
\* the texts a program is tried with: every short text, and a whole frame
\* as three print calls write it
Framed == {<<START, Newline, doc, Newline, END, Newline>> : doc \in JsonDocs}
UserOutputs == SeqsUpTo(Tokens, MaxPrint) \cup Framed
PythonPrograms == [out : UserOutputs, binds : PythonBinds, end : PythonEnds]

UserBinds(g, binds) ==
    CASE binds = "ans_df" -> Bind(g, "ans_df", "K")
      [] binds = "ans_df_none" -> Bind(g, "ans_df", "None")
      [] binds = "new_name" -> Bind(g, "user_df", "K")
      [] binds = "rebinds_dataset" -> Bind(g, Datasets[1], "K")
      [] OTHER -> g

\* the child of the python branch: preamble, user code, epilogue
PythonChild(code, failed) ==
    LET out == LogLines(Len(Datasets)) \o code.out
        g == UserBinds(Preamble(failed), code.binds)
    IN  CASE code.end = "syntax_error" -> Exited(1, <<>>, "Traceback")
          [] code.end = "raises" -> Exited(1, out, "Traceback")
          [] code.end = "exits" -> Exited(0, out, "")
          [] OTHER -> Epilogue(g, out)

\* what a SQL text does: the text itself (it is printed), and whether the
\* in-memory database runs it, rejects it, or the text ends the quoting of
\* the generated source
SqlVerdicts == {"ok", "rejected", "breaks_quoting"}
SqlPrograms == [out : UserOutputs, verdict : SqlVerdicts]

\* mutant: a rejected query leaves ans_df unbound
SqlChild_NoNoneBinding(code, failed) ==
    LET loaded == DatasetIds \ failed
        out == LogLines(Len(Datasets)) \o LogLines(Cardinality(loaded))
               \o LogLines(2) \o code.out \o <<Newline>> \o LogLines(1)
        g == Append(Preamble(failed), [name |-> "conn", value |-> "None"])
    IN  CASE code.verdict = "breaks_quoting" -> Exited(1, <<>>, "Traceback")
          [] code.verdict = "rejected" -> Epilogue(g, out \o LogLines(1))
          [] OTHER ->
              Epilogue(Bind(Bind(g, "result_df", "K"), "ans_df", "K"),
                       out \o LogLines(4))

\* the child of the sql branch: preamble, the loaded frames copied into
\* SQLite, the query inside try/except, epilogue
SqlChild(code, failed) ==
    LET loaded == DatasetIds \ failed
        out == LogLines(Len(Datasets)) \o LogLines(Cardinality(loaded))
               \o LogLines(2) \o code.out \o <<Newline>> \o LogLines(1)
        g == Append(Preamble(failed), [name |-> "conn", value |-> "None"])
    IN  CASE code.verdict = "breaks_quoting" -> Exited(1, <<>>, "Traceback")
          [] code.verdict = "rejected" ->
              Epilogue(Bind(g, "ans_df", "None"), out \o LogLines(1))
          [] OTHER ->
              Epilogue(Bind(Bind(g, "result_df", "K"), "ans_df", "K"),
                       out \o LogLines(4))

\* what the machine does with a run: the child cannot be started, it is
\* still running after the time limit, or it runs to its end with the given
\* loads failing
Environments ==
    {[run |-> "launch_failed", failed |-> {}], [run |-> "over_budget", failed |-> {}]}
    \cup {[run |-> "runs", failed |-> f] : f \in LoadFailures}

Subprocess(env, ending) ==
    CASE env.run = "launch_failed" -> LaunchFailed
      [] env.run = "over_budget" -> TimedOut
      [] OTHER -> ending

(***************************************************************************)
(* routes/code_generation.py: execute_code                                 *)
(***************************************************************************)
\* characters of a file name: a lower-case letter, an upper-case letter, a
\* digit, the dot, and one character that is none of these
Letters == {"a", "A"}
Digits == {"1"}

RECURSIVE Stem(_)
\* filename.split('.')[0]
Stem(filename) ==
    IF filename = <<>> \/ Head(filename) = "." THEN <<>>
    ELSE <<Head(filename)>> \o Stem(Tail(filename))

\* re.sub(r'[^a-zA-Z0-9]', '_', ...).lower()
Clean(stem) ==
    [i \in 1..Len(stem) |->
        IF stem[i] \in Digits THEN stem[i]
        ELSE IF stem[i] \in Letters THEN "a"
        ELSE "_"]

variable_name(filename) ==
    LET v == Clean(Stem(filename))
    IN  IF v[1] \in Digits THEN <<"d", "f", "_">> \o v ELSE v

\* entries of selected_files
EntryGood == [has_filename |-> TRUE, filename |-> <<"A", "-", ".", "a">>]
EntryDigit == [has_filename |-> TRUE, filename |-> <<"1", "a">>]
EntryNoFilename == [has_filename |-> FALSE, filename |-> <<>>]
EntryDotFile == [has_filename |-> TRUE, filename |-> <<".", "a">>]
SelectedFiles ==
    {<<>>, <<EntryGood>>, <<EntryDigit, EntryGood>>, <<EntryNoFilename>>,
     <<EntryGood, EntryDotFile>>}

\* file_mapping[key] = value: a key that is there keeps its place and gets
\* the new value, a new key goes last
DictSet(d, key, value) ==
    IF \E i \in 1..Len(d) : d[i].name = key
    THEN [i \in 1..Len(d) |-> IF d[i].name = key
                              THEN [name |-> key, filename |-> value] ELSE d[i]]
    ELSE Append(d, [name |-> key, filename |-> value])

RECURSIVE MappingLoop(_, _)
\* the loop over selected_files, from the dict built so far
MappingLoop(selected_files, d) ==
    IF selected_files = <<>> THEN [raised |-> "", entries |-> d]
    ELSE LET file_info == Head(selected_files)
         IN  IF ~file_info.has_filename
             THEN [raised |-> "'filename'", entries |-> <<>>]
             ELSE IF Stem(file_info.filename) = <<>>
             THEN [raised |-> "string index out of range", entries |-> <<>>]
             ELSE MappingLoop(Tail(selected_files),
                              DictSet(d, variable_name(file_info.filename),
                                      file_info.filename))

\* the loop over selected_files: the dict it builds (entries in insertion
\* order, names the set of its keys), or the exception that ends it
file_mapping(selected_files) ==
    LET loop == MappingLoop(selected_files, <<>>)
    IN  [raised |-> loop.raised,
         names |-> {loop.entries[i].name : i \in 1..Len(loop.entries)},
         entries |-> loop.entries]

DigitChars == <<"0", "1", "2", "3", "4", "5", "6", "7", "8", "9">>

RECURSIVE Decimal(_)
\* the decimal digits of a natural number
Decimal(n) ==
    IF n < 10 THEN <<DigitChars[n + 1]>>
    ELSE Decimal(n \div 10) \o <<DigitChars[(n % 10) + 1]>>

RECURSIVE Commas(_)
\* f"{n:,}" of a natural number
Commas(n) ==
    IF n < 1000 THEN Decimal(n)
    ELSE Commas(n \div 1000)
         \o <<",", DigitChars[((n \div 100) % 10) + 1],
               DigitChars[((n \div 10) % 10) + 1], DigitChars[(n % 10) + 1]>>

\* the text of one table cell
FormatCell(value) ==
    CASE value.t = "int" -> Commas(value.n)
      [] value.t = "float" ->
           IF value.n % 100 # 0
           THEN Commas(value.n \div 100)
                \o <<".", DigitChars[((value.n \div 10) % 10) + 1],
                      DigitChars[(value.n % 10) + 1]>>
           ELSE Commas(value.n \div 100)
      [] value.t = "null" -> <<"None">>
      [] OTHER -> <<value.s>>

\* list(row.keys())
Keys(row) == [i \in 1..Len(row) |-> row[i][1]]

HasKey(row, col) == \E i \in 1..Len(row) : row[i][1] = col

\* row.get(col, "") as cell text
GetCell(row, col) ==
    IF HasKey(row, col)
    THEN FormatCell(row[CHOOSE i \in 1..Len(row) : row[i][1] = col][2])
    ELSE <<>>

Html(kind, header, rows) == [kind |-> kind, header |-> header, rows |-> rows]

\* mutant: every row is rendered with its own keys
json_to_html_table_OwnKeys(data) ==
    IF data.type = "number"
    THEN IF data.n = 0 THEN Html("notice", <<>>, <<>>) ELSE Html("TypeError", <<>>, <<>>)
    ELSE IF data.items = <<>> THEN Html("notice", <<>>, <<>>)
    ELSE LET columns == Keys(data.items[1])
         IN  Html("table", columns,
                  [r \in 1..Len(data.items) |->
                      [c \in 1..Len(data.items[r]) |->
                          GetCell(data.items[r], Keys(data.items[r])[c])]])

\* json_to_html_table: the notice, a table (header cells, one sequence of
\* cell texts per body row), or the exception it raises on a document that
\* is not an array
json_to_html_table(data) ==
    IF data.type = "number"
    THEN IF data.n = 0 THEN Html("notice", <<>>, <<>>) ELSE Html("TypeError", <<>>, <<>>)
    ELSE IF data.items = <<>> THEN Html("notice", <<>>, <<>>)
    ELSE LET columns == Keys(data.items[1])
         IN  Html("table", columns,
                  [r \in 1..Len(data.items) |->
                      [c \in 1..Len(columns) |-> GetCell(data.items[r], columns[c])]])

\* a response object, as the transport layer sends it
CodeExecutionResponse(success, table_html, error) ==
    [status |-> 200, raised |-> "", success |-> success,
     table_html |-> table_html, error |-> error]

\* an exception on its way out of the handler body, with str(e)
Raise(exc, text) ==
    [status |-> 500, raised |-> exc, success |-> FALSE,
     table_html |-> NoHtml, error |-> text]

ExecReturn(response, outcome, result, left) ==
    [response |-> response, child |-> outcome, result |-> result, left |-> left]

\* the part both branches share: run the kernel and wrap its result
KernelResponse(outcome) ==
    LET r == execute_python_code_in_kernel(outcome)
        table_html == json_to_html_table(r.result.data)
    IN  ExecReturn(IF r.result.success
                   THEN IF table_html.kind = "TypeError"
                        THEN Raise("TypeError", <<"'int' object is not subscriptable">>)
                        ELSE CodeExecutionResponse(TRUE, table_html, <<>>)
                   ELSE CodeExecutionResponse(FALSE, NoHtml, r.result.error),
                   outcome, r.result, r.left)

\* the body of the try block of execute_code
execute_code_try(request, env) ==
    IF request.language = "python"
    THEN LET mapping == file_mapping(request.selected_files)
         IN  IF mapping.raised # ""
             THEN ExecReturn(Raise(IF mapping.raised = "'filename'"
                                   THEN "KeyError" ELSE "IndexError",
                                   <<mapping.raised>>),
                             NoOutcome, NoKernelResult, FALSE)
             ELSE KernelResponse(Subprocess(env, PythonChild(request.code, env.failed)))
    ELSE KernelResponse(Subprocess(env, SqlChild(request.code, env.failed)))

\* mutant: nothing catches what the body raises
execute_code_NoCatch(request, env) == execute_code_try(request, env)

\* execute_code: except Exception turns what the body raises into a response
execute_code(request, env) ==
    LET r == execute_code_try(request, env)
    IN  IF r.response.raised # ""
        THEN [r EXCEPT !.response = CodeExecutionResponse(FALSE, NoHtml, r.response.error)]
        ELSE r

(***************************************************************************)
(* routes/code_generation.py: generate_code                                *)
(*                                                                         *)
(* Text of the hosted model is a sequence of tokens: the fence of three    *)
(* backticks, the words "python" and "sql", the single quote, "x" for one  *)
(* character of any other text, and the line break for white space.        *)
(***************************************************************************)
Fence == "<fence>"
Quote == "'"
GenTokens == {Fence, "python", "sql", Quote, Junk, Newline}

RECURSIVE RemovePair(_, _, _)
\* str.replace(a + b, ""), from left to right
RemovePair(text, a, b) ==
    IF Len(text) < 2 THEN text
    ELSE IF text[1] = a /\ text[2] = b THEN RemovePair(Tail(Tail(text)), a, b)
    ELSE <<Head(text)>> \o RemovePair(Tail(text), a, b)

\* str.replace(a, "")
Remove(text, a) == SelectSeq(text, LAMBDA tok : tok # a)

_clean_response(text, language) ==
    Strip(Remove(RemovePair(RemovePair(RemovePair(Strip(text), Fence, language),
                                       Fence, "python"),
                            Fence, "sql"),
                 Fence))

RECURSIVE Escape(_)
\* str(e).replace("'", "\\'")
Escape(message) ==
    IF message = <<>> THEN <<>>
    ELSE (IF Head(message) = Quote THEN <<"\\", Quote>> ELSE <<Head(message)>>)
         \o Escape(Tail(message))

FallbackOpen == "print('Error generating code: "
FallbackClose == "')"
Fallback(message) == <<FallbackOpen>> \o Escape(message) \o <<FallbackClose>>

\* what the process and the hosted model do with a call: the key is not
\* set, the model answers a text, or the call fails with a message
GenEnvironments ==
    {[api_key |-> FALSE, call |-> "none", text |-> <<>>]}
    \cup [api_key : {TRUE}, call : {"ok", "fails"}, text : SeqsUpTo(GenTokens, MaxText)]

\* mutant: a failed call is raised to the caller
_generate_response_Raises(env) ==
    IF ~env.api_key
    THEN [raised |-> "", text |-> Fallback(<<"GEMINI_API_KEY not found in environment variables">>)]
    ELSE IF env.call = "ok" THEN [raised |-> "", text |-> env.text]
    ELSE [raised |-> "Exception", text |-> env.text]

\* _generate_response: the text of the model, or the fallback source
_generate_response(env) ==
    IF ~env.api_key
    THEN [raised |-> "", text |-> Fallback(<<"GEMINI_API_KEY not found in environment variables">>)]
    ELSE IF env.call = "ok" THEN [raised |-> "", text |-> env.text]
    ELSE [raised |-> "", text |-> Fallback(env.text)]

CodeGenerationResponse(code, success, error) ==
    [status |-> 200, raised |-> "", code |-> code, success |-> success, error |-> error]

\* an exception on its way out of the handler body, with str(e) and the
\* status the transport layer would answer with
GenRaise(exc, status, text) ==
    [status |-> status, raised |-> exc, code |-> <<>>, success |-> FALSE, error |-> text]

\* the body of the try block of generate_code
generate_code_try(request, env) ==
    IF ~env.api_key
    THEN GenRaise("HTTPException", 500,
                  <<"500: ", "GEMINI_API_KEY not configured. Please set the environment variable.">>)
    ELSE IF request.selected_files = <<>>
    THEN GenRaise("HTTPException", 400, <<"400: ", "No files selected for analysis">>)
    ELSE LET mapping == file_mapping(request.selected_files)
             generated_code == _generate_response(env)
         IN  IF mapping.raised # ""
             THEN GenRaise(IF mapping.raised = "'filename'" THEN "KeyError" ELSE "IndexError",
                           500, <<mapping.raised>>)
             ELSE IF generated_code.raised # ""
             THEN GenRaise(generated_code.raised, 500, generated_code.text)
             ELSE CodeGenerationResponse(
                      _clean_response(generated_code.text, request.language), TRUE, <<>>)

\* generate_code: except Exception turns what the body raises into a response
generate_code(request, env) ==
    LET r == generate_code_try(request, env)
    IN  IF r.raised # "" THEN CodeGenerationResponse(<<>>, FALSE, r.error) ELSE r

GenRequests == [language : {"python", "sql"}, selected_files : SelectedFiles]

ExecRequests ==
    [language : {"python"}, code : PythonPrograms, selected_files : SelectedFiles]
    \cup [language : {"sql"}, code : SqlPrograms, selected_files : SelectedFiles]

(***************************************************************************)
(* Execute requests (ExecSpec)                                             *)
(***************************************************************************)
ExecInit ==
    /\ OffExecIdle
    /\ ExecIdle
    /\ GenIdle

\* POST /execute, served from start to end
Execute(request, env) ==
    /\ execReq' = [language |-> request.language, code |-> request.code,
                   selected_files |-> request.selected_files, env |-> env]
    /\ LET r == execute_code(request, env)
       IN  /\ child' = r.child
           /\ kernelResult' = r.result
           /\ execReply' = r.response
           /\ tmpLeft' = r.left
    /\ UNCHANGED <<genVars, offExec>>

\* the response has gone to the client; the handler keeps nothing of it
ResponseSent ==
    /\ execReq # NoExecReq
    /\ execReq' = NoExecReq
    /\ child' = NoOutcome
    /\ kernelResult' = NoKernelResult
    /\ execReply' = NoExecReply
    /\ UNCHANGED <<tmpLeft, genVars, offExec>>

\* one request is served at a time
Serve ==
    /\ execReq = NoExecReq
    /\ genReq = NoGenReq
    /\ \E request \in ExecRequests, env \in Environments : Execute(request, env)

\* POST /generate-code, served from start to end
Generate(request, env) ==
    /\ genReq' = [language |-> request.language,
                  selected_files |-> request.selected_files, env |-> env]
    /\ genReply' = generate_code(request, env)
    /\ UNCHANGED <<execVars, offExec>>

ServeGenerate ==
    /\ execReq = NoExecReq
    /\ genReq = NoGenReq
    /\ \E request \in GenRequests, env \in GenEnvironments : Generate(request, env)

\* the generated code has gone to the client
GenerateSent ==
    /\ genReq # NoGenReq
    /\ genReq' = NoGenReq
    /\ genReply' = NoGenReply
    /\ UNCHANGED <<execVars, offExec>>

ExecNext ==
    \/ Serve
    \/ ResponseSent
    \/ ServeGenerate
    \/ GenerateSent

ExecSpec == ExecInit /\ [][ExecNext]_vars

(***************************************************************************)
(* Claims about Execute                                                    *)
(***************************************************************************)
\* the supplied code fails inside the child: Python code that raises, a SQL
\* query the database rejects
CodeFailsInChild ==
    /\ child.kind = "exited"
    /\ \/ execReq.language = "python" /\ execReq.code.end = "raises"
       \/ execReq.language = "sql" /\ execReq.code.verdict = "rejected"

\* C10: in both languages, when the supplied code fails inside the child,
\* Execute answers success false with the process-failure message: not the
\* timeout, protocol-absence or parse-failure message, and not success.
C10_FailingCodeIsProcessFailure ==
    CodeFailsInChild =>
        /\ ~execReply.success
        /\ execReply.error[1] = "Code execution failed: "
        /\ execReply.error[1] \notin
             {"Code execution timed out", "No valid result found in code output",
              "Failed to parse JSON result: "}

\* a rejected SQL query, with every dataset loaded, answered as a process
\* failure
C10_Witness ==
    /\ CodeFailsInChild
    /\ execReq.language = "sql"
    /\ execReq.env.failed = {}
    /\ ~execReply.success
    /\ execReply.error = <<"Code execution failed: ", "Traceback">>

\* the user code ran to its end, never bound ans_df, bound one frame, and
\* printed no sentinel text
BindsOneFrame ==
    /\ execReq.language = "python"
    /\ child.kind = "exited"
    /\ execReq.code.end = "returns"
    /\ execReq.code.binds \in {"new_name", "rebinds_dataset"}
    /\ ~Contains(execReq.code.out, START)
    /\ ~Contains(execReq.code.out, END)

\* C11: python code that never binds ans_df but binds exactly one frame,
\* under a new name or under the name of a preloaded dataset, still gets
\* success with a table, and the table is that frame, not a preloaded
\* dataset.
C11_FallbackPicksUserFrame ==
    BindsOneFrame =>
        /\ execReply.success
        /\ execReply.table_html = json_to_html_table(UserFrameData)

\* the user code rebound the first dataset and the table shown is that of
\* another, preloaded dataset
C11_Witness ==
    /\ BindsOneFrame
    /\ execReq.code.binds = "rebinds_dataset"
    /\ execReply.success
    /\ execReply.table_html = json_to_html_table(DatasetData)

(***************************************************************************)
(* Claims about Generate and Execute                                       *)
(***************************************************************************)
\* what the transport layer got is a response object: no exception and no
\* error status, a success flag, and an error message when it is a failure
ResponseObject(exchange) ==
    /\ exchange.status = 200
    /\ exchange.raised = ""
    /\ exchange.success \in BOOLEAN
    /\ ~exchange.success => exchange.error # <<>>

\* C12: every Generate and every Execute request is answered with a response
\* object that carries a success flag and, on failure, an error message; no
\* exception and no HTTP error status leaves the two handlers. This covers a
\* missing API key, an empty selected-files list, an entry without a
\* filename or with an empty identifier, a failing model call, and a child
\* that fails or runs over its time.
C12_NoExceptionEscapes ==
    /\ execReq # NoExecReq => ResponseObject(execReply)
    /\ genReq # NoGenReq => ResponseObject(genReply)

\* an Execute request with an entry that has no filename, answered with the
\* KeyError as the error of a response object
C12_Witness ==
    /\ execReq # NoExecReq
    /\ execReq.language = "python"
    /\ execReq.selected_files = <<EntryNoFilename>>
    /\ ResponseObject(execReply)
    /\ execReply.error = <<"'filename'">>

\* the handler reached the hosted model and the call failed
ModelCallFailed ==
    /\ genReq # NoGenReq
    /\ genReq.env.api_key
    /\ genReq.env.call = "fails"
    /\ genReq.selected_files # <<>>
    /\ file_mapping(genReq.selected_files).raised = ""

ColumnNames == {"a", "b"}
CellValues == {IntVal(1234567), FloatVal(250), FloatVal(300), NullVal}

\* the objects: every order of distinct keys, every value under each key
KeyOrders ==
    {ks \in SeqsUpTo(ColumnNames, Cardinality(ColumnNames)) :
        \A i, j \in 1..Len(ks) : i # j => ks[i] # ks[j]}
Objects ==
    UNION {{[i \in 1..Len(ks) |-> <<ks[i], vs[i]>>] : vs \in [1..Len(ks) -> CellValues]} :
            ks \in KeyOrders}

TableInputs ==
    {JsonArray(items) : items \in SeqsUpTo(Objects, MaxRows)}
    \cup {JsonNumber(0), JsonNumber(5)}

TableInit ==
    /\ AuthIdle
    /\ DataIdle
    /\ ExecIdle
    /\ GenIdle
    /\ RaceIdle
    /\ RestIdle
    /\ tableData \in TableInputs
    /\ tableHtml = NoHtml

Render ==
    /\ tableHtml = NoHtml
    /\ tableHtml' = json_to_html_table(tableData)
    /\ UNCHANGED <<tableData, authVars, dataVars, execVars, genVars, raceVars, restVars>>

TableNext == Render

TableSpec == TableInit /\ [][TableNext]_vars

\* the value under a key of an object
ValueOf(row, col) == row[CHOOSE i \in 1..Len(row) : row[i][1] = col][2]

\* C14: on an empty record list json_to_html_table returns the notice and no
\* table; on a non-empty list the header cells are the keys of the first
\* record in order, there is one body row per record and one cell per header
\* key in every row: a key a later record lacks gives an empty cell, and keys
\* only later records have are not rendered.
C14_TableShape ==
    (tableHtml # NoHtml /\ tableData.type = "array") =>
        LET data == tableData.items
        IN  /\ data = <<>> =>
                /\ tableHtml.kind = "notice"
                /\ tableHtml.header = <<>>
                /\ tableHtml.rows = <<>>
            /\ data # <<>> =>
                /\ tableHtml.kind = "table"
                /\ tableHtml.header = Keys(data[1])
                /\ Len(tableHtml.rows) = Len(data)
                /\ \A r \in 1..Len(data) :
                    /\ Len(tableHtml.rows[r]) = Len(tableHtml.header)
                    /\ \A c \in 1..Len(tableHtml.header) :
                        /\ ~HasKey(data[r], tableHtml.header[c])
                            => tableHtml.rows[r][c] = <<>>
                        /\ HasKey(data[r], tableHtml.header[c])
                            => tableHtml.rows[r][c]
                                 = FormatCell(ValueOf(data[r], tableHtml.header[c]))

\* two records rendered, the second without the key of the first and with a
\* key of its own: one header cell, and an empty cell in the second row
C14_Witness ==
    /\ tableData.type = "array"
    /\ Len(tableData.items) = 2
    /\ Keys(tableData.items[1]) = <<"a">>
    /\ Keys(tableData.items[2]) = <<"b">>
    /\ tableHtml.kind = "table"
    /\ tableHtml.header = <<"a">>
    /\ tableHtml.rows[2] = << <<>> >>
    /\ tableHtml.rows[1] = << <<"1", ",", "2", "3", "4", ",", "5", "6", "7">> >>

(***************************************************************************)
(* Claims about the preview (DataSpec)                                     *)
(***************************************************************************)
\* the last exchange is a preview of a CSV file that was parsed
CsvPreviewed ==
    /\ dataReply.op = "preview"
    /\ dataReply.status = 200
    /\ dataReply.body[1].type = "csv"

\* C15: a preview of a CSV file with N data rows returns, for every requested
\* rows value (0, more than N, negative), descriptors for the header columns
\* in order and at most min(requested rows, N) records, with rowsShown the
\* number of records returned and totalRows = N.
C15_CsvPreviewRows ==
    CsvPreviewed =>
        LET content == buckets[dataReply.bucket][dataReply.file]
            N == Len(content) - 1
            preview == dataReply.body[1]
        IN  /\ [c \in 1..Len(preview.columns) |-> preview.columns[c].name] = Head(content)
            /\ Len(preview.rows) <= PyMin(dataReply.rows, N)
            /\ preview.rowsShown = Len(preview.rows)
            /\ preview.totalRows = N

\* rows = -1 on a file of two data rows: one record comes back and rowsShown
\* is -1
C15_Witness ==
    /\ CsvPreviewed
    /\ dataReply.rows = -1
    /\ dataReply.body[1].totalRows = 2
    /\ Len(dataReply.body[1].rows) = 1
    /\ dataReply.body[1].rowsShown = -1

(***************************************************************************)
(* routes/auth.py: two register requests in flight together (RaceSpec)     *)
(*                                                                         *)
(* Every await of register is a point where the other request may run: the *)
(* SELECT of find_by_username, the INSERT of User.create, the INSERT of     *)
(* Session.create.                                                         *)
(***************************************************************************)
Procs == {1, 2}

\* INSERT INTO users under the UNIQUE constraint on username
InsertUser(tbl, name, username, password, salt) ==
    IF User_find_by_username(tbl, username) # NoRow
    THEN [raised |-> "IntegrityError", users |-> tbl, lastrowid |-> 0]
    ELSE [raised |-> "", users |-> User_create(tbl, name, username, password, salt),
          lastrowid |-> LastRowId(tbl)]

RaceInit ==
    /\ AuthIdle
    /\ DataIdle
    /\ ExecIdle
    /\ GenIdle
    /\ TableIdle
    /\ RestIdle
    /\ raceReq \in [Procs -> [username : Usernames, password : Passwords]]
    /\ racePc = [p \in Procs |-> [at |-> "start", user_id |-> 0]]
    /\ raceReply = [p \in Procs |->
                      Request("register", raceReq[p].username, raceReq[p].password, NoToken)]

offRace == <<now, reply, registered, issued, loggedOut,
             dataVars, execVars, genVars, tableVars, restVars>>

\* existing_user = await User.find_by_username(...), and the 400 if there is one
RaceCheck(p) ==
    /\ racePc[p].at = "start"
    /\ IF User_find_by_username(users, raceReq[p].username) # NoRow
       THEN /\ raceReply' = [raceReply EXCEPT ![p] =
                               HTTPException(@, 400, "Username already registered")]
            /\ racePc' = [racePc EXCEPT ![p].at = "done"]
       ELSE /\ racePc' = [racePc EXCEPT ![p].at = "checked"]
            /\ UNCHANGED raceReply
    /\ UNCHANGED <<users, sessions, nextToken, raceReq, offRace>>

\* user_id = await User.create(...); nothing catches what the INSERT raises
RaceInsert(p, name, salt) ==
    /\ racePc[p].at = "checked"
    /\ LET out == InsertUser(users, name, raceReq[p].username, raceReq[p].password, salt)
       IN  /\ users' = out.users
           /\ IF out.raised # ""
              THEN /\ raceReply' = [raceReply EXCEPT ![p] =
                                      HTTPException(@, 500, "Internal Server Error")]
                   /\ racePc' = [racePc EXCEPT ![p].at = "done"]
              ELSE /\ racePc' = [racePc EXCEPT ![p] =
                                   [at |-> "inserted", user_id |-> out.lastrowid]]
                   /\ UNCHANGED raceReply
    /\ UNCHANGED <<sessions, nextToken, raceReq, offRace>>

\* token = await Session.create(db, user_id); return {"token": token}
RaceSession(p) ==
    /\ racePc[p].at = "inserted"
    /\ sessions' = Session_create(sessions, racePc[p].user_id, Token(nextToken), now)
    /\ nextToken' = nextToken + 1
    /\ raceReply' = [raceReply EXCEPT ![p] =
                       [@ EXCEPT !.status = 200, !.token = Token(nextToken)]]
    /\ racePc' = [racePc EXCEPT ![p].at = "done"]
    /\ UNCHANGED <<users, raceReq, offRace>>

RaceNext ==
    \/ \E p \in Procs : RaceCheck(p)
    \/ \E p \in Procs, n \in Names, sl \in Salts : RaceInsert(p, n, sl)
    \/ \E p \in Procs : RaceSession(p)

RaceSpec == RaceInit /\ [][RaceNext]_vars

\* both requests ask for the same username and both have been answered
SameNameBothDone ==
    /\ racePc # <<>>
    /\ raceReq[1].username = raceReq[2].username
    /\ \A p \in Procs : racePc[p].at = "done"

\* C16: under any interleaving of two register requests for the same new
\* username at most one user row is created, exactly one request gets a
\* token, and the other is rejected with 400 "Username already registered".
C16_ConcurrentRegister ==
    SameNameBothDone =>
        /\ Len(users) <= 1
        /\ \E p \in Procs :
            /\ raceReply[p].status = 200
            /\ raceReply[p].token # NoToken
            /\ \A q \in Procs \ {p} :
                /\ raceReply[q].status = 400
                /\ raceReply[q].detail = "Username already registered"
                /\ raceReply[q].token = NoToken

\* both requests passed the check before either inserted: one row, one
\* token, and the loser answered 500
C16_Witness ==
    /\ SameNameBothDone
    /\ Len(users) = 1
    /\ raceReply[1].status = 200
    /\ raceReply[2].status = 500
    /\ raceReply[2].token = NoToken

(***************************************************************************)
(* Claims about the life of session rows (AuthSpec)                        *)
(***************************************************************************)
\* the step answered a register or login request with a token
TokenIssued(r) == r.op \in {"register", "login"} /\ r.status = 200

ExpiredBefore(r, t) == FromIso(r[4]) < t

MaxName == 2
MaxFiles == 2

\* the characters of a file name
FileChars == Letters \cup Digits \cup {".", "-"}

\* the file names a request is tried with, the empty one included
SelectedNames == SeqsUpTo(FileChars, MaxName)

\* the lists of selected files, each entry with its 'filename' key
FileLists ==
    SeqsUpTo({[has_filename |-> TRUE, filename |-> n] : n \in SelectedNames}, MaxFiles)

MapInit ==
    /\ AuthIdle
    /\ DataIdle
    /\ ExecIdle
    /\ GenIdle
    /\ TableIdle
    /\ RaceIdle
    /\ LoadIdle
    /\ mapFiles \in FileLists
    /\ mapResult = NoMapping

\* Step 1 of generate_code and of the python branch of execute_code
BuildMapping ==
    /\ ~mapResult.built
    /\ LET m == file_mapping(mapFiles)
       IN  mapResult' = [built |-> TRUE, raised |-> m.raised, names |-> m.names,
                         entries |-> m.entries]
    /\ UNCHANGED <<mapFiles, authVars, dataVars, execVars, genVars, tableVars,
                   raceVars, loadVars>>

MapNext == BuildMapping

MapSpec == MapInit /\ [][MapNext]_vars

\* lowercase letters, digits and underscores only, and no digit in front
IsIdentifier(v) ==
    /\ v # <<>>
    /\ \A i \in 1..Len(v) : v[i] \in {"a", "d", "f", "_"} \cup Digits
    /\ v[1] \notin Digits

\* C19: context construction gives every selected file its own entry in the
\* context, keyed by an identifier of lowercase letters, digits and
\* underscores that does not start with a digit, for every list of file
\* names, names that differ only in non-alphanumeric characters or case and
\* names with nothing before the first dot included.
C19_EveryFileOwnEntry ==
    mapResult.built =>
        /\ mapResult.raised = ""
        /\ \A j \in 1..Len(mapResult.entries) : IsIdentifier(mapResult.entries[j].name)
        /\ \A i \in 1..Len(mapFiles) :
             \E j \in 1..Len(mapResult.entries) :
                mapResult.entries[j].filename = mapFiles[i].filename

\* two selected files whose names differ only in case, and the one entry
\* built for them
C19_Witness ==
    /\ mapResult.built
    /\ mapResult.raised = ""
    /\ Len(mapFiles) = 2
    /\ mapFiles[1].filename = <<"a">>
    /\ mapFiles[2].filename = <<"A">>
    /\ Len(mapResult.entries) = 1

(***************************************************************************)
(* The generated source of execute_code, block by block: one try/except    *)
(* per dataset, for sql one more per dataset to copy it into SQLite, then  *)
(* the code of the request                                                 *)
(***************************************************************************)
\* mutant: read_csv outside try/except
TryLoad_NoExcept(g, i, ok) ==
    [raised |-> ~ok,
     globals |-> IF ok THEN Bind(g, Datasets[i], "J") ELSE g]

\* try: <name> = pd.read_csv(...) except Exception: <name> = None
TryLoad(g, i, ok) ==
    [raised |-> FALSE,
     globals |-> Bind(g, Datasets[i], IF ok THEN "J" ELSE "None")]

\* try: if <name> is not None: <name>.to_sql('<name>', conn, ...)
TryToSql(tables, g, i) ==
    IF HasName(g, Datasets[i]) /\ Lookup(g, Datasets[i]) # "None"
    THEN tables \cup {Datasets[i]}
    ELSE tables

LoadInit ==
    /\ AuthIdle
    /\ DataIdle
    /\ ExecIdle
    /\ GenIdle
    /\ TableIdle
    /\ RaceIdle
    /\ MapIdle
    /\ LoadIdle

offLoad == <<authVars, dataVars, execVars, genVars, tableVars, raceVars, mapVars>>

\* the child starts on the source built for a request of the language
LoadStart(language) ==
    /\ loadPc = "idle"
    /\ loadPc' = "loading"
    /\ loadLang' = language
    /\ UNCHANGED <<loadGlobals, loadFailed, loadPos, loadTables, offLoad>>

\* the next dataset block: read_csv returns a frame or raises
LoadDataset(ok) ==
    /\ loadPc = "loading"
    /\ LET i == loadPos + 1
           r == TryLoad(loadGlobals, i, ok)
           last == i = Len(Datasets)
       IN  /\ loadFailed' = IF ok THEN loadFailed ELSE loadFailed \cup {i}
           /\ IF r.raised
              THEN /\ loadPc' = "aborted"
                   /\ UNCHANGED <<loadGlobals, loadPos>>
              ELSE /\ loadGlobals' =
                        IF last /\ loadLang = "sql"
                        THEN Bind(r.globals, "conn", "None")
                        ELSE r.globals
                   /\ loadPos' = IF last THEN 0 ELSE i
                   /\ loadPc' = IF ~last THEN "loading"
                                ELSE IF loadLang = "sql" THEN "registering"
                                ELSE "user"
    /\ UNCHANGED <<loadLang, loadTables, offLoad>>

\* the next to_sql block of the sql source
RegisterTable ==
    /\ loadPc = "registering"
    /\ LET i == loadPos + 1
           last == i = Len(Datasets)
       IN  /\ loadTables' = TryToSql(loadTables, loadGlobals, i)
           /\ loadPos' = IF last THEN 0 ELSE i
           /\ loadPc' = IF last THEN "user" ELSE "registering"
    /\ UNCHANGED <<loadLang, loadGlobals, loadFailed, offLoad>>

\* the code of the request is reached
RunUserCode ==
    /\ loadPc = "user"
    /\ loadPc' = "done"
    /\ UNCHANGED <<loadLang, loadGlobals, loadFailed, loadPos, loadTables, offLoad>>

LoadNext ==
    \/ \E language \in {"python", "sql"} : LoadStart(language)
    \/ \E ok \in BOOLEAN : LoadDataset(ok)
    \/ RegisterTable
    \/ RunUserCode

LoadSpec == LoadInit /\ [][LoadNext]_vars

\* the preamble is over
PreambleDone == loadPc \in {"user", "done"}

HoldsHashOf(r, token) == r[3] = sha256(token)

\* C23: logout(token) clears the active flag of exactly the sessions whose
\* stored hash is the hash of the presented token and changes nothing else:
\* every other session, other sessions of the same user included, stays
\* usable, the users table is unchanged, and logout with an unknown or
\* already logged-out token changes no table and still returns the
\* confirmation.
C23_LogoutFrame ==
    [][reply'.op = "logout" =>
         /\ reply'.status = 200
         /\ reply'.detail = "Successfully logged out"
         /\ users' = users
         /\ Len(sessions') = Len(sessions)
         /\ \A i \in 1..Len(sessions) :
              /\ HoldsHashOf(sessions[i], reply'.presented) =>
                    sessions'[i] = [sessions[i] EXCEPT ![5] = 0]
              /\ ~HoldsHashOf(sessions[i], reply'.presented) =>
                    sessions'[i] = sessions[i]
         /\ \A token \in Presentable \ {reply'.presented} :
              \A i \in 1..Len(sessions) :
                 Usable(sessions[i], token, now) => Usable(sessions'[i], token, now')
         /\ (\A i \in 1..Len(sessions) :
                ~(HoldsHashOf(sessions[i], reply'.presented) /\ sessions[i][5] = 1))
              => sessions' = sessions]_vars

\* a logout has just deactivated one of two sessions of the same user and
\* the other one is still usable
C23_Witness ==
    /\ reply.op = "logout"
    /\ Len(sessions) = 2
    /\ sessions[1][2] = sessions[2][2]
    /\ HoldsHashOf(sessions[1], reply.presented)
    /\ sessions[1][5] = 0
    /\ sessions[2][5] = 1
    /\ now < FromIso(sessions[2][4])

(***************************************************************************)
(* Claims about the sentinel protocol under Execute (ExecSpec)             *)
(***************************************************************************)
\* the last six tokens of a text
Last6(out) == SubSeq(out, Len(out) - 5, Len(out))

\* the child ran to the end of the epilogue with exit code 0 and the
\* epilogue printed the sentinel pair around the array doc
EpiloguePrinted(doc) ==
    /\ child.kind = "exited"
    /\ child.returncode = 0
    /\ \/ execReq.language = "python" /\ execReq.code.end = "returns"
       \/ execReq.language = "sql" /\ execReq.code.verdict # "breaks_quoting"
    /\ Len(child.stdout) >= 6
    /\ Last6(child.stdout) = <<START, Newline, doc, Newline, END, Newline>>

\* C24: whenever the child exits with code 0 and the epilogue printed the
\* START sentinel, the JSON array of the result and the END sentinel,
\* Execute returns success with exactly that array, whatever the user code
\* wrote to standard output before it, sentinel text included.
C24_EpilogueFrameWins ==
    \A doc \in FrameDocs :
        EpiloguePrinted(doc) =>
            /\ execReply.success
            /\ kernelResult.data = json_loads(doc)
            /\ execReply.table_html = json_to_html_table(json_loads(doc))

\* the user code printed a sentinel pair of its own around another array,
\* the epilogue printed the pair around the last loaded dataset, and the
\* table returned is that of the user's text
C24_Witness ==
    /\ EpiloguePrinted("J")
    /\ execReq.language = "python"
    /\ execReq.code.out = <<START, Newline, "K", Newline, END, Newline>>
    /\ execReply.success
    /\ kernelResult.data = json_loads("K")
    /\ execReply.table_html = json_to_html_table(UserFrameData)

\* the response the request being served would get with another list of
\* selected files, the code, the language and the behaviour of the child
\* being the same
ResponseWith(selected_files) ==
    execute_code([language |-> execReq.language, code |-> execReq.code,
                  selected_files |-> selected_files], execReq.env).response

\* C25: the response of Execute is determined by the code, the language and
\* the behaviour of the child alone: two requests that differ only in their
\* selected files (none, well-formed, an entry without a filename or with a
\* name starting with a dot) get the same response.
C25_SelectionDoesNotMatter ==
    execReq # NoExecReq =>
        \A selected_files \in SelectedFiles : ResponseWith(selected_files) = execReply

\* python code that gets its table with no file selected is refused when
\* the selection holds an entry without a filename
C25_Witness ==
    /\ execReq # NoExecReq
    /\ execReq.language = "python"
    /\ execReq.selected_files = <<EntryNoFilename>>
    /\ ~execReply.success
    /\ execReply.error = <<"'filename'">>
    /\ child = NoOutcome
    /\ ResponseWith(<<>>).success

(***************************************************************************)
(* Claims about the throwaway source file (KernelSpec)                     *)
(***************************************************************************)
\* execute_python_code_in_kernel has returned for a child that was started
KernelReturned == child.kind \in {"exited", "timeout"}

\* C26: after execute_python_code_in_kernel returns, the throwaway source
\* file it created has been removed, for every outcome of the run: success,
\* process failure, missing sentinel pair, parse failure and timeout.
C26_SourceFileRemoved == KernelReturned => ~tmpLeft

\* the kernel has returned the timeout message and the source file of that
\* run is still there
C26_Witness ==
    /\ child.kind = "timeout"
    /\ kernelResult.error = <<"Code execution timed out">>
    /\ tmpLeft

====
